---- MODULE Spec2Model ----
(***************************************************************************)
(* json_analytics: the schema-aggregation engine of src/main.rs (KeyMap,   *)
(* KMTypes and their accumulators, the document walk, the merge, the two   *)
(* reports) and the path-query parser of src/query.rs.                     *)
(*                                                                         *)
(* Strings (object keys, query strings, printed paths) are sequences of    *)
(* one-character strings.  An Option<Box<T>> is a sequence of length 0     *)
(* (None) or 1 (Some).  A HashSet is a set, a HashMap a function whose     *)
(* DOMAIN is its key set.                                                  *)
(***************************************************************************)
EXTENDS Integers, Sequences, FiniteSets

VARIABLES
    files,      \* main: the Vec of document identifiers collected by WalkDir
    json,       \* read_json_file's result for every document identifier
    segs,       \* the state of rayon's filter_map + reduce over `files`
    pc,         \* main's position: "scan", "exit"
    stdout,     \* the lines printed by print_keys (a set: HashMap order)
    query_out,  \* the lines printed by print_query (a sequence)
    error,      \* main's Err result
    cmd,        \* args.cmd once main dispatches on it (name "none" before)
    input,      \* query.rs: the string handed to query()
    parsed      \* query.rs: query()'s result

vars == <<files, json, segs, pc, stdout, query_out, error, cmd, input, parsed>>

(***************************************************************************)
(* Bounds of the model.                                                    *)
(***************************************************************************)
\* longest array among the array values fed to KMTypes::add
MaxLen == 2
\* longest query string handed to query()
MaxQueryLen == 5
\* largest --type-count handed to print_keys
MaxTypeCount == 3

(***************************************************************************)
(* serde_json::Value                                                       *)
(***************************************************************************)
Null == [kind |-> "null"]
Bool(b) == [kind |-> "bool", b |-> b]
\* serde_json::Number: repr "i64" (is_i64), "f64" (is_f64: n is the bit
\* pattern to_bits() returns) or "u64" (a positive integer above i64::MAX:
\* neither is_i64 nor is_f64)
Number(repr, n) == [kind |-> "number", repr |-> repr, n |-> n]
I64(n) == Number("i64", n)
Str == [kind |-> "string"]
Arr(items) == [kind |-> "array", items |-> items]
Obj(fields) == [kind |-> "object", fields |-> fields]

(***************************************************************************)
(* The accumulators.                                                       *)
(***************************************************************************)
KMNull_new == [files |-> {}]
KMBool_new == [t |-> {}, f |-> {}]
KMNumber_new == [files |-> {}, int |-> {}, float |-> {}]
KMString_new == [files |-> {}]
KMArray_new == [items |-> <<>>, min_len |-> 0, max_len |-> 0]
KMObject_new == [files |-> {}]

KMTypes_new ==
    [null |-> KMNull_new, bool |-> KMBool_new, string |-> KMString_new,
     number |-> KMNumber_new, array |-> KMArray_new, object |-> KMObject_new]

KMNull_merge(self, other) == [files |-> self.files \cup other.files]
KMBool_merge(self, other) ==
    [t |-> self.t \cup other.t, f |-> self.f \cup other.f]
KMNumber_merge(self, other) ==
    [files |-> self.files \cup other.files,
     int |-> self.int \cup other.int,
     float |-> self.float \cup other.float]
KMString_merge(self, other) == [files |-> self.files \cup other.files]
KMObject_merge(self, other) == [files |-> self.files \cup other.files]

KMNull_is_empty(self) == self.files = {}
KMBool_is_empty(self) == self.t = {} /\ self.f = {}
KMNumber_is_empty(self) == self.files = {}
KMString_is_empty(self) == self.files = {}
KMObject_is_empty(self) == self.files = {}

KMNull_count(self) == Cardinality(self.files)
KMBool_count(self) == Cardinality(self.t) + Cardinality(self.f)
KMNumber_count(self) == Cardinality(self.files)
KMString_count(self) == Cardinality(self.files)
KMObject_count(self) == Cardinality(self.files)

Min(a, b) == IF a < b THEN a ELSE b
Max(a, b) == IF a > b THEN a ELSE b

\* self.items.get_or_insert(Box::new(KMTypes::new())), read side
KMArray_get_items(self) ==
    IF Len(self.items) = 0 THEN KMTypes_new ELSE self.items[1]

RECURSIVE KMTypes_merge(_, _)
RECURSIVE KMTypes_add(_, _, _)
RECURSIVE KMTypes_is_empty(_)
RECURSIVE KMTypes_count(_)

\* KMArray::merge with max_len narrowed like min_len
KMArray_merge_min_max(self, other) ==
    [min_len |-> Min(self.min_len, other.min_len),
     max_len |-> Min(self.max_len, other.max_len),
     items |-> IF Len(other.items) = 1
               THEN <<KMTypes_merge(KMArray_get_items(self), other.items[1])>>
               ELSE self.items]

KMArray_merge(self, other) ==
    [min_len |-> Min(self.min_len, other.min_len),
     max_len |-> Max(self.max_len, other.max_len),
     items |-> IF Len(other.items) = 1
               THEN <<KMTypes_merge(KMArray_get_items(self), other.items[1])>>
               ELSE self.items]

KMArray_add(self, file, json_value) ==
    [self EXCEPT !.items = <<KMTypes_add(KMArray_get_items(self), file, json_value)>>]

KMArray_is_empty(self) ==
    Len(self.items) = 0 \/ KMTypes_is_empty(self.items[1])

KMArray_count(self) ==
    IF Len(self.items) = 1 THEN KMTypes_count(self.items[1]) ELSE 0

\* `for item in array { self.array.add(clone_path, item) }`
RECURSIVE KMArray_add_items(_, _, _)
KMArray_add_items(self, file, array) ==
    IF array = <<>> THEN self
    ELSE KMArray_add_items(KMArray_add(self, file, Head(array)), file, Tail(array))

KMTypes_add_bool(self, file, value) ==
    IF value
    THEN [self EXCEPT !.bool.t = @ \cup {file}]
    ELSE [self EXCEPT !.bool.t = @ \cup {file}]

KMTypes_add_number(self, file, n) ==
    LET s1 == [self EXCEPT !.number.files = @ \cup {file}]
    IN  IF n.repr = "i64" THEN [s1 EXCEPT !.number.int = @ \cup {n.n}]
        ELSE IF n.repr = "f64" THEN [s1 EXCEPT !.number.float = @ \cup {n.n}]
        ELSE s1

KMTypes_add_array(self, file, array) ==
    LET len == Len(array)
        a1 == IF len < self.array.min_len
              THEN [self.array EXCEPT !.min_len = len] ELSE self.array
        a2 == IF len > a1.max_len THEN [a1 EXCEPT !.max_len = len] ELSE a1
    IN  [self EXCEPT !.array = KMArray_add_items(a2, file, array)]

KMTypes_add(self, file, json_value) ==
    CASE json_value.kind = "null" -> [self EXCEPT !.null.files = @ \cup {file}]
      [] json_value.kind = "bool" -> KMTypes_add_bool(self, file, json_value.b)
      [] json_value.kind = "number" -> KMTypes_add_number(self, file, json_value)
      [] json_value.kind = "string" -> [self EXCEPT !.string.files = @ \cup {file}]
      [] json_value.kind = "array" -> KMTypes_add_array(self, file, json_value.items)
      [] json_value.kind = "object" -> [self EXCEPT !.object.files = @ \cup {file}]

KMTypes_merge(self, other) ==
    [null |-> KMNull_merge(self.null, other.null),
     bool |-> KMBool_merge(self.bool, other.bool),
     number |-> KMNumber_merge(self.number, other.number),
     string |-> KMString_merge(self.string, other.string),
     array |-> KMArray_merge(self.array, other.array),
     object |-> KMObject_merge(self.object, other.object)]

KMTypes_is_empty(self) ==
    /\ KMNull_is_empty(self.null)
    /\ KMBool_is_empty(self.bool)
    /\ KMString_is_empty(self.string)
    /\ KMNumber_is_empty(self.number)
    /\ KMArray_is_empty(self.array)
    /\ KMObject_is_empty(self.object)

KMTypes_is_object(self) ==
    /\ KMNull_is_empty(self.null)
    /\ KMBool_is_empty(self.bool)
    /\ KMString_is_empty(self.string)
    /\ KMNumber_is_empty(self.number)
    /\ KMArray_is_empty(self.array)

B2U(b) == IF b THEN 1 ELSE 0

KMTypes_type_count(self) ==
    B2U(~KMNull_is_empty(self.null))
    + B2U(~KMBool_is_empty(self.bool))
    + B2U(~KMString_is_empty(self.string))
    + B2U(~KMNumber_is_empty(self.number))
    + B2U(~KMArray_is_empty(self.array))

KMTypes_count(self) ==
    KMNull_count(self.null)
    + KMBool_count(self.bool)
    + KMString_count(self.string)
    + KMNumber_count(self.number)
    + KMArray_count(self.array)
    + KMObject_count(self.object)

(***************************************************************************)
(* KeyMap                                                                  *)
(***************************************************************************)
NoKeys == [k \in {} |-> 0]

KeyMap_new == [count |-> 0, types |-> KMTypes_new, keys |-> NoKeys]

\* self.keys.entry(name).or_insert_with(KeyMap::new), read side
KeyMap_entry(keys, name) ==
    IF name \in DOMAIN keys THEN keys[name] ELSE KeyMap_new

\* KeyMap::add from `sub_tree.count += 1` on, as a function of the entry
\* found or created for the key.  The loop over v_map touches one entry of
\* sub_tree.keys per field, and the fields of a map have distinct names.
RECURSIVE KeyMap_add_sub_tree(_, _, _)
\* KeyMap::add counting a key only when its value is not an object
KeyMap_add_sub_tree_leaf_count(sub_tree, file, value) ==
    LET s2 == IF value.kind = "object"
              THEN [sub_tree EXCEPT !.keys =
                       [k \in DOMAIN sub_tree.keys \cup DOMAIN value.fields |->
                           IF k \in DOMAIN value.fields
                           THEN KeyMap_add_sub_tree(KeyMap_entry(sub_tree.keys, k),
                                                    file, value.fields[k])
                           ELSE sub_tree.keys[k]]]
              ELSE [sub_tree EXCEPT !.count = @ + 1]
    IN  [s2 EXCEPT !.types = KMTypes_add(@, file, value)]

KeyMap_add_sub_tree(sub_tree, file, value) ==
    LET s1 == [sub_tree EXCEPT !.count = @ + 1]
        s2 == IF value.kind = "object"
              THEN [s1 EXCEPT !.keys =
                       [k \in DOMAIN s1.keys \cup DOMAIN value.fields |->
                           IF k \in DOMAIN value.fields
                           THEN KeyMap_add_sub_tree(KeyMap_entry(s1.keys, k),
                                                    file, value.fields[k])
                           ELSE s1.keys[k]]]
              ELSE s1
    IN  [s2 EXCEPT !.types = KMTypes_add(@, file, value)]

KeyMap_add(self, file, name, value) ==
    [self EXCEPT !.keys =
        [k \in DOMAIN self.keys \cup {name} |->
            IF k = name
            THEN KeyMap_add_sub_tree(KeyMap_entry(self.keys, name), file, value)
            ELSE self.keys[k]]]

RECURSIVE KeyMap_merge(_, _)
\* KeyMap::merge with an occupied entry replaced by the other tree's
KeyMap_merge_replace(self, other) ==
    [count |-> self.count + other.count,
     types |-> KMTypes_merge(self.types, other.types),
     keys |-> [k \in DOMAIN self.keys \cup DOMAIN other.keys |->
                 IF k \in DOMAIN other.keys THEN other.keys[k] ELSE self.keys[k]]]

KeyMap_merge(self, other) ==
    [count |-> self.count + other.count,
     types |-> KMTypes_merge(self.types, other.types),
     keys |-> [k \in DOMAIN self.keys \cup DOMAIN other.keys |->
                 IF k \in DOMAIN other.keys
                 THEN IF k \in DOMAIN self.keys
                      THEN KeyMap_merge(self.keys[k], other.keys[k])
                      ELSE other.keys[k]
                 ELSE self.keys[k]]]

(***************************************************************************)
(* query.rs: the path-query parser.  A parser takes the input and returns  *)
(* [ok, rest, out]; on an error `rest` is the input it was given.          *)
(***************************************************************************)
Dot == "."
Quote == "\""
PErr(i) == [ok |-> FALSE, rest |-> i, out |-> <<>>]
POk(i, o) == [ok |-> TRUE, rest |-> i, out |-> o]

\* nom::character::complete::char
P_char(c, i) ==
    IF Len(i) > 0 /\ i[1] = c THEN POk(Tail(i), <<c>>) ELSE PErr(i)

\* nom::bytes::complete::is_not: the longest prefix free of `set`; an empty
\* prefix is an error
P_is_not(set, i) ==
    LET hits == {j \in 1..Len(i) : i[j] \in set}
        n == IF hits = {} THEN Len(i)
             ELSE (CHOOSE j \in hits : \A k \in hits : j <= k) - 1
    IN  IF n = 0 THEN PErr(i)
        ELSE POk(SubSeq(i, n + 1, Len(i)), SubSeq(i, 1, n))

\* preceded(char('"'), terminated(is_not("\""), char('"')))
quoted_key(i) ==
    LET open == P_char(Quote, i)
        body == P_is_not({Quote}, open.rest)
        close == P_char(Quote, body.rest)
    IN  IF ~open.ok THEN PErr(i)
        ELSE IF ~body.ok THEN PErr(i)
        ELSE IF ~close.ok THEN PErr(i)
        ELSE POk(close.rest, body.out)

\* is_not("\"\n\t .")
key(i) == P_is_not({Quote, "\n", "\t", " ", Dot}, i)

\* alt((quoted_key, key))
P_segment(i) ==
    LET q == quoted_key(i) IN IF q.ok THEN q ELSE key(i)

\* separated_list0(char('.'), alt(..)), the loop after the first element
RECURSIVE P_separated_loop(_, _)
P_separated_loop(i, res) ==
    LET sep == P_char(Dot, i)
        elem == P_segment(sep.rest)
    IN  IF ~sep.ok THEN POk(i, res)
        ELSE IF Len(sep.rest) = Len(i) THEN PErr(i)
        ELSE IF ~elem.ok THEN POk(i, res)
        ELSE P_separated_loop(elem.rest, Append(res, elem.out))

P_separated_list0(i) ==
    LET first == P_segment(i)
    IN  IF ~first.ok THEN POk(i, <<>>)
        ELSE P_separated_loop(first.rest, <<first.out>>)

\* all_consuming(preceded(char('.'), separated_list0(..)))
query(i) ==
    LET dot == P_char(Dot, i)
        list == P_separated_list0(dot.rest)
    IN  IF ~dot.ok THEN [ok |-> FALSE, rest |-> i, keys |-> <<>>]
        ELSE IF ~list.ok THEN [ok |-> FALSE, rest |-> list.rest, keys |-> <<>>]
        ELSE IF Len(list.rest) > 0 THEN [ok |-> FALSE, rest |-> list.rest, keys |-> <<>>]
        ELSE [ok |-> TRUE, rest |-> list.rest, keys |-> list.out]

(***************************************************************************)
(* The reports.                                                            *)
(***************************************************************************)
\* impl Display for KeyString
KeyString_fmt(self) ==
    IF \E j \in 1..Len(self) : self[j] = Dot
    THEN <<Quote>> \o self \o <<Quote>>
    ELSE self

\* impl Display for KMTypes and KMArray: the summary as the sequence of its
\* entries, [tag, count] and, for the array, [tag, items, count] with the
\* nested summary in `items` (<<>> when self.items is None)
RECURSIVE KMTypes_fmt(_)
KMArray_fmt(self) ==
    [tag |-> "[]",
     items |-> IF Len(self.items) = 1 THEN <<KMTypes_fmt(self.items[1])>> ELSE <<>>,
     count |-> KMArray_count(self)]

KMTypes_fmt(self) ==
    (IF self.null.files # {}
     THEN <<[tag |-> "N", count |-> KMNull_count(self.null)]>> ELSE <<>>)
    \o (IF ~(self.bool.f = {} /\ self.bool.f = {})
        THEN <<[tag |-> "B", count |-> KMBool_count(self.bool)]>> ELSE <<>>)
    \o (IF self.number.files # {}
        THEN <<[tag |-> "Num", count |-> KMNumber_count(self.number)]>> ELSE <<>>)
    \o (IF self.string.files # {}
        THEN <<[tag |-> "Str", count |-> KMString_count(self.string)]>> ELSE <<>>)
    \o (IF ~KMArray_is_empty(self.array) THEN <<KMArray_fmt(self.array)>> ELSE <<>>)
    \o (IF self.object.files # {}
        THEN <<[tag |-> "{}", count |-> KMObject_count(self.object)]>> ELSE <<>>)

\* `for p in prefix.iter() { print!(".{p}") }`
RECURSIVE PrefixString(_)
PrefixString(prefix) ==
    IF prefix = <<>> THEN <<>>
    ELSE <<Dot>> \o KeyString_fmt(Head(prefix)) \o PrefixString(Tail(prefix))

\* the lines print_sub_keys prints for `tree` and everything below it
RECURSIVE print_sub_keys(_, _, _)
print_sub_keys(tree, type_count, prefix) ==
    (IF ~KMTypes_is_object(tree.types) /\ KMTypes_type_count(tree.types) >= type_count
     THEN {[count |-> tree.count, path |-> PrefixString(prefix),
            types |-> KMTypes_fmt(tree.types)]}
     ELSE {})
    \cup UNION {print_sub_keys(tree.keys[k], type_count, Append(prefix, k)) :
                  k \in DOMAIN tree.keys}

print_keys(tree, type_count) == print_sub_keys(tree, type_count, <<>>)

\* #[derive(Serialize)] with skip_serializing_if: the JSON text as the
\* object it denotes, a function from the member names written to their
\* values
RECURSIVE Serialize_KMTypes(_)
Serialize_KMArray(self) ==
    [items |-> IF Len(self.items) = 1
               THEN <<Serialize_KMTypes(self.items[1])>> ELSE <<>>,
     min_len |-> self.min_len,
     max_len |-> self.max_len]

Serialize_KMTypes(self) ==
    LET written ==
            (IF KMNull_is_empty(self.null) THEN {} ELSE {"null"})
            \cup (IF KMBool_is_empty(self.bool) THEN {} ELSE {"bool"})
            \cup (IF KMString_is_empty(self.string) THEN {} ELSE {"string"})
            \cup (IF KMNumber_is_empty(self.number) THEN {} ELSE {"number"})
            \cup (IF KMArray_is_empty(self.array) THEN {} ELSE {"array"})
            \cup (IF KMObject_is_empty(self.object) THEN {} ELSE {"object"})
    IN  [m \in written |->
            IF m = "array" THEN Serialize_KMArray(self.array) ELSE self[m]]

RECURSIVE Serialize_KeyMap(_)
Serialize_KeyMap(self) ==
    [count |-> self.count,
     types |-> Serialize_KMTypes(self.types),
     keys |-> [k \in DOMAIN self.keys |-> Serialize_KeyMap(self.keys[k])]]

\* the loop of print_query: the sub tree the keys lead to, or the first key
\* that is missing
RECURSIVE Resolve(_, _)
\* the loop of print_query naming the last key of the query when one is
\* missing
Resolve_last_key(tree, keys) ==
    IF keys = <<>> THEN [found |-> TRUE, tree |-> tree, missing |-> <<>>]
    ELSE IF Head(keys) \notin DOMAIN tree.keys
         THEN [found |-> FALSE, tree |-> tree, missing |-> keys[Len(keys)]]
         ELSE Resolve(tree.keys[Head(keys)], Tail(keys))

Resolve(tree, keys) ==
    IF keys = <<>> THEN [found |-> TRUE, tree |-> tree, missing |-> <<>>]
    ELSE IF Head(keys) \notin DOMAIN tree.keys
         THEN [found |-> FALSE, tree |-> tree, missing |-> Head(keys)]
         ELSE Resolve(tree.keys[Head(keys)], Tail(keys))

\* print_query once the keys are resolved: the lines printed and the Result,
\* <<>> for Ok(())
print_resolved(r) ==
    IF ~r.found
    THEN [out |-> <<>>, err |-> <<[kind |-> "Could not resolve key", key |-> r.missing]>>]
    ELSE [out |-> <<Serialize_KeyMap(r.tree)>>, err |-> <<>>]

\* print_query once the query is parsed
print_parsed(tree, p) ==
    IF ~p.ok
    THEN [out |-> <<>>, err |-> <<[kind |-> "Failed to parse query", key |-> <<>>]>>]
    ELSE print_resolved(Resolve(tree, p.keys))

print_query(tree, q) == print_parsed(tree, query(q))

(***************************************************************************)
(* main: the parallel walk and reduce                                      *)
(***************************************************************************)
\* keys of the model's documents
KeyA == <<"a">>
KeyB == <<"b">>
Keys == {KeyA, KeyB}

PartialFns(K, V) == UNION {[S -> V] : S \in SUBSET K}

\* values below a key of the scanned corpus
Leaf == {I64(1), Arr(<<>>), Arr(<<Str>>)}
\* flat documents, and documents with one key holding an object of numbers
FlatDocs == {Obj(m) : m \in PartialFns(Keys, Leaf)}
InnerObjs == {Obj(m) : m \in PartialFns(Keys, {I64(1)})}
NestedDocs == {Obj([k \in {k1} |-> o]) : k1 \in Keys, o \in InnerObjs}
Docs == FlatDocs \cup NestedDocs

\* read_json_file: Err (unreadable or malformed), or Ok(value)
ReadErr == [ok |-> FALSE]
ReadOk(v) == [ok |-> TRUE, value |-> v]
Reads == {ReadErr, ReadOk(I64(1))} \cup {ReadOk(d) : d \in Docs}

\* `for (k, v) in m { sub_map.add(file, &k, &v) }`
RECURSIVE WalkObject(_, _, _, _)
WalkObject(sub_map, file, m, todo) ==
    IF todo = {} THEN sub_map
    ELSE LET k == CHOOSE x \in todo : TRUE
         IN  WalkObject(KeyMap_add(sub_map, file, k, m[k]), file, m, todo \ {k})

\* the closure handed to filter_map: None is <<>>, Some(sub_map) is <<sub_map>>
SubMap(file, read) ==
    IF ~read.ok THEN <<>>
    ELSE IF read.value.kind = "object"
         THEN <<WalkObject(KeyMap_new, file, read.value.fields, DOMAIN read.value.fields)>>
         ELSE <<KeyMap_new>>

\* the closure handed to reduce
ReduceOp(a, b) == KeyMap_merge(a, b)

\* a reduce folder taking one more item of the filter_map
FolderConsume(item, sub) ==
    IF Len(sub) = 1 THEN ReduceOp(item, sub[1]) ELSE item

Remove(s, i) == [j \in 1..(Len(s) - 1) |-> IF j < i THEN s[j] ELSE s[j + 1]]

FileSeq == <<"f1", "f2", "f3">>

NoParse == [ok |-> FALSE, rest |-> <<>>, keys |-> <<>>]

InitIdle ==
    /\ pc = "scan"
    /\ stdout = {}
    /\ query_out = <<>>
    /\ error = <<>>
    /\ cmd = [name |-> "none"]
    /\ input = <<>>
    /\ parsed = NoParse

Init ==
    /\ files = FileSeq
    /\ json \in [{files[i] : i \in 1..Len(files)} -> Reads]
    /\ segs = [i \in 1..Len(files) |->
                 [lo |-> i, hi |-> i, ready |-> FALSE, item |-> KeyMap_new]]
    /\ InitIdle

\* a rayon job starts a folder with identity() on a file nobody has taken
LeafStart(i) ==
    /\ pc = "scan"
    /\ ~segs[i].ready
    /\ LET f == files[segs[i].lo]
       IN  segs' = [segs EXCEPT ![i].ready = TRUE,
                       ![i].item = FolderConsume(KeyMap_new, SubMap(f, json[f]))]
    /\ UNCHANGED <<files, json, pc, stdout, query_out, error, cmd, input, parsed>>

\* a folder goes on to the next file of its chunk
LeafConsume(i) ==
    /\ pc = "scan"
    /\ i < Len(segs)
    /\ segs[i].ready
    /\ ~segs[i + 1].ready
    /\ LET f == files[segs[i + 1].lo]
           merged == [segs[i] EXCEPT !.hi = segs[i + 1].hi,
                          !.item = FolderConsume(@, SubMap(f, json[f]))]
       IN  segs' = Remove([segs EXCEPT ![i] = merged], i + 1)
    /\ UNCHANGED <<files, json, pc, stdout, query_out, error, cmd, input, parsed>>

\* the results of two adjacent chunks are combined: a.merge(b)
Reduce(i) ==
    /\ pc = "scan"
    /\ i < Len(segs)
    /\ segs[i].ready
    /\ segs[i + 1].ready
    /\ LET merged == [segs[i] EXCEPT !.hi = segs[i + 1].hi,
                          !.item = ReduceOp(@, segs[i + 1].item)]
       IN  segs' = Remove([segs EXCEPT ![i] = merged], i + 1)
    /\ UNCHANGED <<files, json, pc, stdout, query_out, error, cmd, input, parsed>>

Next ==
    \/ \E i \in 1..Len(segs) : LeafStart(i)
    \/ \E i \in 1..Len(segs) : LeafConsume(i)
    \/ \E i \in 1..Len(segs) : Reduce(i)

Spec == Init /\ [][Next]_vars

(***************************************************************************)
(* main: the two commands, on a corpus of two documents with values of     *)
(* every kind.                                                             *)
(***************************************************************************)
Scalars ==
    {Null, Bool(TRUE), Bool(FALSE), I64(1), Number("f64", 3), Number("u64", 4), Str}
ElemVals == {I64(1), I64(2), Str}
Arrays == {Arr(s) : s \in UNION {[1..n -> ElemVals] : n \in 0..MaxLen}}
RichLeaf == Scalars \cup Arrays
ReportDocs == {Obj([k \in {k1} |-> v]) : k1 \in Keys, v \in RichLeaf} \cup NestedDocs
ReportReads == {ReadErr} \cup {ReadOk(d) : d \in ReportDocs}

\* the query string of a key path without quoting
RECURSIVE QueryOf(_)
QueryOf(path) ==
    IF path = <<>> THEN <<>> ELSE <<Dot>> \o Head(path) \o QueryOf(Tail(path))

KeyPaths == UNION {[1..n -> Keys] : n \in 1..2}
ReportQueries ==
    {<<Dot>>, KeyA, <<Dot>> \o KeyA \o <<Dot>>} \cup {QueryOf(p) : p \in KeyPaths}

Done == Len(segs) = 1 /\ segs[1].ready
Tree == segs[1].item

InitReport ==
    /\ files = <<"f1", "f2">>
    /\ json \in [{files[i] : i \in 1..Len(files)} -> ReportReads]
    /\ segs = [i \in 1..Len(files) |->
                 [lo |-> i, hi |-> i, ready |-> FALSE, item |-> KeyMap_new]]
    /\ InitIdle

\* Command::Keys
CmdKeys(type_count) ==
    /\ pc = "scan"
    /\ Done
    /\ cmd' = [name |-> "keys", type_count |-> type_count]
    /\ stdout' = print_keys(Tree, type_count)
    /\ pc' = "exit"
    /\ UNCHANGED <<files, json, segs, query_out, error, input, parsed>>

\* Command::Query
CmdQuery(q) ==
    /\ pc = "scan"
    /\ Done
    /\ cmd' = [name |-> "query", query |-> q]
    /\ input' = q
    /\ parsed' = query(q)
    /\ \E r \in {print_query(Tree, q)} : query_out' = r.out /\ error' = r.err
    /\ pc' = "exit"
    /\ UNCHANGED <<files, json, segs, stdout>>

NextReport ==
    \/ \E i \in 1..Len(segs) : LeafStart(i)
    \/ \E i \in 1..Len(segs) : LeafConsume(i)
    \/ \E i \in 1..Len(segs) : Reduce(i)
    \/ \E n \in 0..MaxTypeCount : CmdKeys(n)
    \/ \E q \in ReportQueries : CmdQuery(q)

SpecReport == InitReport /\ [][NextReport]_vars

(***************************************************************************)
(* query.rs: query() on every string of a small alphabet.                  *)
(***************************************************************************)
Chars == {Dot, Quote, "a", " "}
QueryStrings == UNION {[1..n -> Chars] : n \in 0..MaxQueryLen}

InitQuery ==
    /\ files = <<>>
    /\ json = NoKeys
    /\ segs = <<>>
    /\ pc = "query"
    /\ stdout = {}
    /\ query_out = <<>>
    /\ error = <<>>
    /\ cmd = [name |-> "none"]
    /\ input \in QueryStrings
    /\ parsed = NoParse

ParseQuery ==
    /\ pc = "query"
    /\ parsed' = query(input)
    /\ pc' = "exit"
    /\ UNCHANGED <<files, json, segs, stdout, query_out, error, cmd, input>>

NextQuery == ParseQuery

SpecQuery == InitQuery /\ [][NextQuery]_vars

(***************************************************************************)
(* What the documents hold, read off `json` alone.                         *)
(***************************************************************************)
FileSet == {files[i] : i \in 1..Len(files)}
SegFiles(s) == {files[i] : i \in s.lo..s.hi}
SegSeq(s) == [j \in 1..(s.hi - s.lo + 1) |-> files[s.lo + j - 1]]
IsObjectDoc(f) == json[f].ok /\ json[f].value.kind = "object"

\* the value a key path leads to in a JSON value: <<>> when it is absent
RECURSIVE ValueAt(_, _)
ValueAt(v, path) ==
    IF path = <<>> THEN <<v>>
    ELSE IF v.kind = "object" /\ Head(path) \in DOMAIN v.fields
         THEN ValueAt(v.fields[Head(path)], Tail(path))
         ELSE <<>>

DocValueAt(f, path) == IF IsObjectDoc(f) THEN ValueAt(json[f].value, path) ELSE <<>>
PathPresent(f, path) == DocValueAt(f, path) # <<>>

\* the node of a tree a key path leads to: <<>> when there is none
RECURSIVE NodeAt(_, _)
NodeAt(tree, path) ==
    IF path = <<>> THEN <<tree>>
    ELSE IF Head(path) \in DOMAIN tree.keys
         THEN NodeAt(tree.keys[Head(path)], Tail(path))
         ELSE <<>>

\* key paths one level deeper than any the documents hold
DeepPaths == UNION {[1..n -> Keys] : n \in 1..3}

\* every document of a sequence of files walked into one tree with
\* KeyMap::add
RECURSIVE WalkDocs(_, _)
WalkDocs(tree, fs) ==
    IF fs = <<>> THEN tree
    ELSE WalkDocs(IF IsObjectDoc(Head(fs))
                  THEN WalkObject(tree, Head(fs), json[Head(fs)].value.fields,
                                  DOMAIN json[Head(fs)].value.fields)
                  ELSE tree,
                  Tail(fs))

\* the per-document tree of a file that was read
PerDoc(f) == SubMap(f, json[f])[1]
ReadFiles == {f \in FileSet : json[f].ok}

RECURSIVE FoldMerge(_, _)
FoldMerge(tree, fs) ==
    IF fs = <<>> THEN tree
    ELSE FoldMerge(KeyMap_merge(tree, PerDoc(Head(fs))), Tail(fs))

\* the orders in which the files that were read can be listed
Orders(S) == {o \in [1..Cardinality(S) -> S] : \A i, j \in DOMAIN o : o[i] = o[j] => i = j}

AllWalked == Len(segs) = Len(files) /\ \A i \in 1..Len(segs) : segs[i].ready

(***************************************************************************)
(* C1: KeyMap::merge is associative and commutative on the per-document    *)
(* trees: once the three documents are walked, for every way of naming     *)
(* them A, B, C, merge(merge(A,B),C), merge(A,merge(B,C)) and              *)
(* merge(merge(A,C),B) are the same tree; and the tree the reduce of main  *)
(* ends with is the one obtained by merging the per-document trees in any  *)
(* order.                                                                  *)
(***************************************************************************)
C1_MergeAssocComm ==
    /\ AllWalked =>
          \A a, b, c \in ReadFiles :
              (a # b /\ a # c /\ b # c) =>
                  /\ KeyMap_merge(KeyMap_merge(PerDoc(a), PerDoc(b)), PerDoc(c))
                       = KeyMap_merge(PerDoc(a), KeyMap_merge(PerDoc(b), PerDoc(c)))
                  /\ KeyMap_merge(KeyMap_merge(PerDoc(a), PerDoc(b)), PerDoc(c))
                       = KeyMap_merge(KeyMap_merge(PerDoc(a), PerDoc(c)), PerDoc(b))
    /\ Done => \A o \in Orders(ReadFiles) : Tree = FoldMerge(KeyMap_new, o)

\* three documents sharing a key, with different kinds below it and a
\* nested object in one of them, all merged by the reduce
C1_Witness ==
    /\ Done
    /\ Cardinality(ReadFiles) = 3
    /\ \A f \in FileSet : PathPresent(f, <<KeyA>>)
    /\ \E f, g, h \in FileSet :
          /\ DocValueAt(f, <<KeyA>>)[1].kind = "number"
          /\ DocValueAt(g, <<KeyA>>)[1] = Arr(<<Str>>)
          /\ PathPresent(h, <<KeyA, KeyB>>)
    /\ Tree.keys[KeyA].count = 3

(***************************************************************************)
(* C2: the tree a merge leaves is the tree obtained by walking, with       *)
(* KeyMap::add, every document behind the two merged trees into one fresh  *)
(* tree: every tree the reduce holds equals the single-tree walk of the    *)
(* files it covers.                                                        *)
(***************************************************************************)
C2_MergeIsSingleWalk ==
    \A i \in 1..Len(segs) :
        segs[i].ready => segs[i].item = WalkDocs(KeyMap_new, SegSeq(segs[i]))

\* a merged tree of two documents that share a key holding arrays of
\* different lengths, while a third tree is still apart
C2_Witness ==
    /\ Len(segs) = 2
    /\ \E i \in 1..2 :
          /\ segs[i].ready
          /\ segs[i].hi = segs[i].lo + 1
          /\ DocValueAt(files[segs[i].lo], <<KeyA>>) = <<Arr(<<>>)>>
          /\ DocValueAt(files[segs[i].hi], <<KeyA>>) = <<Arr(<<Str>>)>>
          /\ segs[i].item.keys[KeyA].types.array.max_len = 1

(***************************************************************************)
(* C3: count conservation: in every tree the reduce holds, the count of    *)
(* the node a non-empty key path leads to is the number of documents,      *)
(* among those the tree covers, that hold the path; a path no document     *)
(* holds has no node.                                                      *)
(***************************************************************************)
C3_CountConservation ==
    \A i \in 1..Len(segs) :
        segs[i].ready =>
            \A path \in DeepPaths :
                LET n == Cardinality({f \in SegFiles(segs[i]) : PathPresent(f, path)})
                    node == NodeAt(segs[i].item, path)
                IN  IF node = <<>> THEN n = 0 ELSE node[1].count = n

\* the final tree, with a nested path two of the three documents hold and a
\* top-level key all three hold
C3_Witness ==
    /\ Done
    /\ Cardinality({f \in FileSet : PathPresent(f, <<KeyA, KeyB>>)}) = 2
    /\ Cardinality({f \in FileSet : PathPresent(f, <<KeyA>>)}) = 3
    /\ NodeAt(Tree, <<KeyA, KeyB>>)[1].count = 2
    /\ NodeAt(Tree, <<KeyA>>)[1].count = 3

(***************************************************************************)
(* C7: print_query resolves the parsed segments from the root; a query     *)
(* that does not parse, or one with a segment that is absent, prints       *)
(* nothing, and the error of the latter names the first absent segment;    *)
(* a query that resolves prints exactly one line, the serialization of     *)
(* the node it leads to.                                                   *)
(***************************************************************************)
C7_QueryResolution ==
    (pc = "exit" /\ cmd.name = "query") =>
        LET keys == parsed.keys
            absent == {j \in 1..Len(keys) : NodeAt(Tree, SubSeq(keys, 1, j)) = <<>>}
            first == CHOOSE j \in absent : \A k \in absent : j <= k
        IN  IF ~parsed.ok
            THEN /\ query_out = <<>>
                 /\ Len(error) = 1
                 /\ error[1].kind = "Failed to parse query"
            ELSE IF absent # {}
            THEN /\ query_out = <<>>
                 /\ error = <<[kind |-> "Could not resolve key", key |-> keys[first]]>>
            ELSE /\ error = <<>>
                 /\ query_out = <<Serialize_KeyMap(NodeAt(Tree, keys)[1])>>

\* query .a.b on a corpus that holds key a but not a.b: the error names b
C7_Witness ==
    /\ pc = "exit"
    /\ cmd.name = "query"
    /\ input = QueryOf(<<KeyA, KeyB>>)
    /\ parsed.ok
    /\ \E f \in FileSet : PathPresent(f, <<KeyA>>)
    /\ \A f \in FileSet : ~PathPresent(f, <<KeyA, KeyB>>)
    /\ query_out = <<>>
    /\ error = <<[kind |-> "Could not resolve key", key |-> KeyB]>>

(***************************************************************************)
(* The kinds and values the documents hold at a key path.                  *)
(***************************************************************************)
FilesOfKind(fs, path, kind) ==
    {f \in fs : PathPresent(f, path) /\ DocValueAt(f, path)[1].kind = kind}
FilesOfValue(fs, path, v) == {f \in fs : DocValueAt(f, path) = <<v>>}
ObservedKinds(fs, path) ==
    {kind \in {"null", "bool", "number", "string", "array", "object"} :
        FilesOfKind(fs, path, kind) # {}}

SetMin(S) == CHOOSE x \in S : \A y \in S : x <= y
SetMax(S) == CHOOSE x \in S : \A y \in S : x >= y

KindRecorded(types, kind) ==
    CASE kind = "null" -> ~KMNull_is_empty(types.null)
      [] kind = "bool" -> ~KMBool_is_empty(types.bool)
      [] kind = "number" -> ~KMNumber_is_empty(types.number)
      [] kind = "string" -> ~KMString_is_empty(types.string)
      [] kind = "array" -> ~KMArray_is_empty(types.array)
      [] kind = "object" -> ~KMObject_is_empty(types.object)

(***************************************************************************)
(* C4: array aggregation: in every tree the reduce holds, at a key path    *)
(* where the covered documents hold arrays, min_len is the smallest and    *)
(* max_len the largest of their lengths, and the element TypeStats         *)
(* records every kind of element of those arrays.                          *)
(***************************************************************************)
C4_ArrayAggregation ==
    \A i \in 1..Len(segs) :
        segs[i].ready =>
            \A path \in KeyPaths :
                LET fs == FilesOfKind(SegFiles(segs[i]), path, "array")
                    arrays == {DocValueAt(f, path)[1].items : f \in fs}
                    lens == {Len(a) : a \in arrays}
                    kinds == UNION {{a[j].kind : j \in 1..Len(a)} : a \in arrays}
                    array == NodeAt(segs[i].item, path)[1].types.array
                IN  fs # {} =>
                        /\ array.min_len = SetMin(lens)
                        /\ array.max_len = SetMax(lens)
                        /\ kinds # {} =>
                              /\ Len(array.items) = 1
                              /\ \A kind \in kinds : KindRecorded(array.items[1], kind)

(***************************************************************************)
(* C5: the key listing: print_keys with threshold N prints a line for a    *)
(* key path if and only if the documents hold a value that is not an       *)
(* object at that path and the number of distinct non-object kinds they    *)
(* hold there is at least N, whether or not the nodes above it were        *)
(* printed; and it prints no other line.                                   *)
(***************************************************************************)
C5_KeyListingFilter ==
    (pc = "exit" /\ cmd.name = "keys") =>
        /\ \A path \in KeyPaths :
              LET kinds == ObservedKinds(FileSet, path) \ {"object"}
              IN  (\E line \in stdout : line.path = PrefixString(path))
                  <=> (kinds # {} /\ Cardinality(kinds) >= cmd.type_count)
        /\ \A line \in stdout : \E path \in KeyPaths : line.path = PrefixString(path)

(***************************************************************************)
(* C6: the summary of a printed line shows exactly the kinds whose         *)
(* accumulator is not empty, each with its count: a node at which a        *)
(* boolean was recorded has a B entry with the number of boolean           *)
(* observations recorded.                                                  *)
(***************************************************************************)
EntryCounts(summary, tag) ==
    {summary[j].count : j \in {k \in 1..Len(summary) : summary[k].tag = tag}}

C6_KeyListingSummary ==
    (pc = "exit" /\ cmd.name = "keys") =>
        \A path \in KeyPaths : \A line \in stdout :
            line.path = PrefixString(path) =>
                LET t == NodeAt(Tree, path)[1].types
                    Shown(tag, empty, count) ==
                        EntryCounts(line.types, tag) = IF empty THEN {} ELSE {count}
                IN  /\ Shown("N", KMNull_is_empty(t.null), KMNull_count(t.null))
                    /\ Shown("B", KMBool_is_empty(t.bool), KMBool_count(t.bool))
                    /\ Shown("Num", KMNumber_is_empty(t.number), KMNumber_count(t.number))
                    /\ Shown("Str", KMString_is_empty(t.string), KMString_count(t.string))
                    /\ Shown("[]", KMArray_is_empty(t.array), KMArray_count(t.array))
                    /\ Shown("{}", KMObject_is_empty(t.object), KMObject_count(t.object))

(***************************************************************************)
(* C10: kind dispatch: in every tree the reduce holds, the document set    *)
(* of the null, number, string and object accumulator of a node holds      *)
(* exactly the covered documents with a value of that kind at the node's   *)
(* path, and the `true` and `false` document sets of the boolean           *)
(* accumulator hold exactly the documents with true and with false there.  *)
(***************************************************************************)
C10_KindDispatch ==
    \A i \in 1..Len(segs) :
        segs[i].ready =>
            \A path \in KeyPaths :
                LET fs == SegFiles(segs[i])
                    node == NodeAt(segs[i].item, path)
                IN  node # <<>> =>
                        /\ node[1].types.null.files = FilesOfKind(fs, path, "null")
                        /\ node[1].types.bool.t = FilesOfValue(fs, path, Bool(TRUE))
                        /\ node[1].types.bool.f = FilesOfValue(fs, path, Bool(FALSE))
                        /\ node[1].types.number.files = FilesOfKind(fs, path, "number")
                        /\ node[1].types.string.files = FilesOfKind(fs, path, "string")
                        /\ node[1].types.object.files = FilesOfKind(fs, path, "object")

(***************************************************************************)
(* The grammar of a path query, stated on the string itself.               *)
(***************************************************************************)
StopChars == {Quote, "\n", "\t", " ", Dot}
IsBare(w) == Len(w) >= 1 /\ \A j \in 1..Len(w) : w[j] \notin StopChars
\* a double-quoted run of at least `least` characters other than '"'
IsQuoted(w, least) ==
    /\ Len(w) >= 2 + least
    /\ w[1] = Quote
    /\ w[Len(w)] = Quote
    /\ \A j \in 2..(Len(w) - 1) : w[j] # Quote
Strip(w) == IF w[1] = Quote THEN SubSeq(w, 2, Len(w) - 1) ELSE w

\* the pieces of r between the positions D of some of its dots, from `from`
RECURSIVE PiecesAt(_, _, _)
PiecesAt(r, D, from) ==
    LET later == {d \in D : d >= from}
        next == CHOOSE d \in later : \A e \in later : d <= e
    IN  IF later = {} THEN <<SubSeq(r, from, Len(r))>>
        ELSE <<SubSeq(r, from, next - 1)>> \o PiecesAt(r, D, next + 1)

\* the ways to read r as segments separated by single dots
Readings(r, least) ==
    {ps \in {PiecesAt(r, D, 1) : D \in SUBSET {j \in 1..Len(r) : r[j] = Dot}} :
        \A j \in 1..Len(ps) : IsBare(ps[j]) \/ IsQuoted(ps[j], least)}

Stripped(ps) == [j \in 1..Len(ps) |-> Strip(ps[j])]

(***************************************************************************)
(* C8: query(s) succeeds if and only if s is a '.' followed by zero or     *)
(* more segments separated by single '.', a segment being a non-empty run  *)
(* of characters other than '"', newline, tab, space and '.', or a         *)
(* double-quoted run of zero or more characters other than '"'; it then    *)
(* returns the segments in order, quotes stripped.                         *)
(***************************************************************************)
C8_QueryGrammar ==
    pc = "exit" =>
        LET readings == IF Len(input) >= 1 /\ input[1] = Dot
                        THEN IF Len(input) = 1 THEN {<<>>}
                             ELSE Readings(Tail(input), 0)
                        ELSE {}
        IN  /\ parsed.ok <=> readings # {}
            /\ parsed.ok => \A ps \in readings : parsed.keys = Stripped(ps)

(***************************************************************************)
(* C9: as the parser's tests assert, query applied to segments joined by   *)
(* '.' with no leading '.' returns Ok with an empty remainder and the      *)
(* segments in order, a quoted segment without its quotes.                 *)
(***************************************************************************)
C9_QueryTests ==
    pc = "exit" =>
        \A ps \in Readings(input, 1) :
            (Len(input) >= 1) =>
                /\ parsed.ok
                /\ parsed.rest = <<>>
                /\ parsed.keys = Stripped(ps)

====
